---------------------------- MODULE Spec2Model ----------------------------
(***************************************************************************)
(* A model of the receipt processor (src/main.go): the in-memory receipt   *)
(* store, the two HTTP handlers ProcessReceiptsEndpoint and                *)
(* GetPointsEndpoint, and the rule engine calculatePoints.                 *)
(*                                                                         *)
(* Text (Go strings) is a sequence of one-character strings.  float64 is   *)
(* modelled bit-exactly for finite values: a sign, a 53-bit significand    *)
(* (most significant bit first) and a binary exponent, with IEEE-754       *)
(* round-to-nearest-even after every operation, as strconv.ParseFloat and  *)
(* the float64 multiplication of the Go build produce them.                *)
(***************************************************************************)
EXTENDS Integers, Sequences, FiniteSets, TLC

(***************************************************************************)
(* Bounds of the model.                                                    *)
(***************************************************************************)
\* Decimal amounts (total, price) range over -MaxCents/100 .. MaxCents/100.
MaxCents == 650
\* Item descriptions have 0 .. MaxDescLen characters.
MaxDescLen == 4
\* Number of identifiers the uuid generator hands out in a run.
MaxReceipts == 2
\* Number of request goroutines in the concurrent specification.
MaxThreads == 2

(***************************************************************************)
(* Text.                                                                   *)
(***************************************************************************)
Digits == <<"0", "1", "2", "3", "4", "5", "6", "7", "8", "9">>

IsDigit(c) == \E i \in 1..10 : Digits[i] = c

DigitVal(c) == (CHOOSE i \in 1..10 : Digits[i] = c) - 1

\* s[i] is a decimal digit (time.isDigit: false past the end of s).
isDigit(s, i) == i <= Len(s) /\ IsDigit(s[i])

\* All characters of s are decimal digits.
AllDigits(s) == \A i \in 1..Len(s) : IsDigit(s[i])

\* The value of a run of decimal digits (0 for the empty run).
RECURSIVE DecVal(_)
DecVal(s) ==
    IF s = <<>> THEN 0
    ELSE 10 * DecVal(SubSeq(s, 1, Len(s) - 1)) + DigitVal(s[Len(s)])

(***************************************************************************)
(* float64.  A finite value is [neg, m, e]: (-1)^neg * m * 2^e, where m    *)
(* is the 53-bit significand as a sequence of bits, most significant       *)
(* first, and m = <<>> for zero.                                           *)
(***************************************************************************)
MantBits == 53

Zero(neg) == [neg |-> neg, m |-> <<>>, e |-> 0]

\* The bits of a natural number, most significant first (<<>> for 0).
RECURSIVE NatBits(_)
NatBits(n) == IF n = 0 THEN <<>> ELSE Append(NatBits(n \div 2), n % 2)

\* The natural number a bit sequence denotes.
RECURSIVE BitsNat(_)
BitsNat(b) ==
    IF b = <<>> THEN 0
    ELSE 2 * BitsNat(SubSeq(b, 1, Len(b) - 1)) + b[Len(b)]

\* b without its leading zero bits.
RECURSIVE StripLeading(_)
StripLeading(b) ==
    IF b # <<>> /\ b[1] = 0 THEN StripLeading(Tail(b)) ELSE b

\* b + 1 on bit sequences of the same length; a carry out of the top bit
\* gives a sequence one bit longer.
RECURSIVE IncBits(_)
IncBits(b) ==
    IF b = <<>> THEN <<1>>
    ELSE IF b[Len(b)] = 0 THEN Append(SubSeq(b, 1, Len(b) - 1), 1)
    ELSE Append(IncBits(SubSeq(b, 1, Len(b) - 1)), 0)

\* Round the exact value b * 2^e (plus a nonzero tail below the last bit of
\* b when sticky) to 53 significant bits, ties to even.  b starts with 1.
RoundToFloat(neg, b, sticky, e) ==
    IF Len(b) <= MantBits
    THEN [neg |-> neg,
          m |-> b \o [i \in 1..(MantBits - Len(b)) |-> 0],
          e |-> e - (MantBits - Len(b))]
    ELSE LET top   == SubSeq(b, 1, MantBits)
             guard == b[MantBits + 1]
             rest  == sticky \/ \E i \in (MantBits + 2)..Len(b) : b[i] = 1
             up    == guard = 1 /\ (rest \/ top[MantBits] = 1)
             r     == IF up THEN IncBits(top) ELSE top
             drop  == Len(b) - MantBits
         IN  IF Len(r) > MantBits
             THEN [neg |-> neg, m |-> SubSeq(r, 1, MantBits), e |-> e + drop + 1]
             ELSE [neg |-> neg, m |-> r, e |-> e + drop]

\* The binary expansion of r/d (0 <= r < d) appended to acc until acc holds
\* MantBits + 1 significant bits or the expansion ends: [bits, frac, rem],
\* frac the number of fractional bits produced.
RECURSIVE FracBits(_, _, _, _)
FracBits(r, d, acc, frac) ==
    IF r = 0 \/ Len(acc) > MantBits
    THEN [bits |-> acc, frac |-> frac, rem |-> r]
    ELSE LET bit == IF 2 * r >= d THEN 1 ELSE 0
             nxt == IF acc = <<>> /\ bit = 0 THEN acc ELSE Append(acc, bit)
         IN  FracBits(2 * r - bit * d, d, nxt, frac + 1)

\* The float64 nearest to the rational n/d (n >= 0, d > 0): the correctly
\* rounded conversion strconv.ParseFloat performs on a decimal literal.
RatToFloat(neg, n, d) ==
    IF n = 0 THEN Zero(neg)
    ELSE LET fb == FracBits(n % d, d, NatBits(n \div d), 0)
         IN  RoundToFloat(neg, fb.bits, fb.rem # 0, -fb.frac)

\* float64(n) for an int n (exact below 2^53).
FromInt(n) ==
    IF n = 0 THEN Zero(FALSE)
    ELSE RoundToFloat(n < 0, NatBits(IF n < 0 THEN -n ELSE n), FALSE, 0)

\* Multi-precision product of two significands.  A significand is cut into
\* limbs of LimbBits bits, least significant limb first.
LimbBits == 13

LimbBase == 2 ^ LimbBits

NLimbs(b) == (Len(b) + LimbBits - 1) \div LimbBits

\* Limb k (from 0, least significant) of bit sequence b.
Limb(b, k) ==
    LET hi == Len(b) - k * LimbBits
        lo == hi - LimbBits + 1
    IN  IF hi < 1 THEN 0 ELSE BitsNat(SubSeq(b, IF lo < 1 THEN 1 ELSE lo, hi))

Limbs(b) == [k \in 1..NLimbs(b) |-> Limb(b, k - 1)]

\* Column k of the schoolbook product: the sum of x[i] * y[j], i + j = k.
RECURSIVE Column(_, _, _, _)
Column(x, y, k, i) ==
    IF i > Len(x) THEN 0
    ELSE (IF k - i >= 1 /\ k - i <= Len(y) THEN x[i] * y[k - i] ELSE 0)
         + Column(x, y, k, i + 1)

\* The limbs of x * y, produced column by column with the carry.
RECURSIVE MulLimbs(_, _, _, _, _)
MulLimbs(x, y, k, carry, acc) ==
    IF k > Len(x) + Len(y) THEN acc
    ELSE LET s == Column(x, y, k + 1, 1) + carry
         IN  MulLimbs(x, y, k + 1, s \div LimbBase, Append(acc, s % LimbBase))

\* The bits (most significant first, no leading zeros) of a limb sequence.
LimbsToBits(l) ==
    StripLeading([i \in 1..(Len(l) * LimbBits) |->
        LET pos == Len(l) * LimbBits - i
        IN  (l[(pos \div LimbBits) + 1] \div (2 ^ (pos % LimbBits))) % 2])

MulBits(a, b) == LimbsToBits(MulLimbs(Limbs(a), Limbs(b), 1, 0, <<>>))

\* a * b in float64 arithmetic: the exact product rounded to nearest even.
FMul(a, b) ==
    IF a.m = <<>> \/ b.m = <<>> THEN Zero(a.neg # b.neg)
    ELSE RoundToFloat(a.neg # b.neg, MulBits(a.m, b.m), FALSE, a.e + b.e)

\* int(x): the float64 truncated toward zero.
Trunc(x) ==
    LET mag == IF x.m = <<>> THEN 0
               ELSE IF x.e >= 0 THEN BitsNat(x.m) * (2 ^ x.e)
               ELSE IF MantBits + x.e <= 0 THEN 0
               ELSE BitsNat(SubSeq(x.m, 1, MantBits + x.e))
    IN  IF x.neg THEN -mag ELSE mag

\* a == b on float64 (0 and -0 are equal).
FEq(a, b) ==
    IF a.m = <<>> \/ b.m = <<>> THEN a.m = b.m
    ELSE a.neg = b.neg /\ a.m = b.m /\ a.e = b.e

(***************************************************************************)
(* strconv.ParseFloat(s, 64) on text over the alphabet of the model: an    *)
(* optional sign, decimal digits with at most one point, at least one      *)
(* digit.  Anything else is a syntax error, for which ParseFloat returns   *)
(* 0 and an error.                                                         *)
(***************************************************************************)
\* The index of the first "." of s, or Len(s) + 1.
PointAt(s) ==
    IF \E i \in 1..Len(s) : s[i] = "."
    THEN CHOOSE i \in 1..Len(s) : s[i] = "." /\ \A j \in 1..(i - 1) : s[j] # "."
    ELSE Len(s) + 1

ParseFloat(s) ==
    LET signed == s # <<>> /\ s[1] \in {"+", "-"}
        neg    == s # <<>> /\ s[1] = "-"
        body   == IF signed THEN Tail(s) ELSE s
        p      == PointAt(body)
        ip     == SubSeq(body, 1, p - 1)
        fp     == SubSeq(body, p + 1, Len(body))
        ok     == AllDigits(ip) /\ AllDigits(fp) /\ Len(ip) + Len(fp) >= 1
    IN  IF ok
        THEN [f |-> RatToFloat(neg, DecVal(ip \o fp), 10 ^ Len(fp)), err |-> FALSE]
        ELSE [f |-> Zero(FALSE), err |-> TRUE]

(***************************************************************************)
(* time.Parse.  A time.Time is [year, month, day, hour, min] (UTC; seconds *)
(* are always 0 here).  A failed parse returns the zero Time, January 1,   *)
(* year 1, 00:00.                                                          *)
(***************************************************************************)
ZeroTime == [year |-> 1, month |-> 1, day |-> 1, hour |-> 0, min |-> 0]

\* time.Date(0, 1, 1, hour, min, 0, 0, time.UTC)
ClockTime(hour, min) ==
    [year |-> 0, month |-> 1, day |-> 1, hour |-> hour, min |-> min]

\* time.getnum: one or two leading digits (exactly two when fixed).
\* [ok, val, rest].
getnum(s, fixed) ==
    IF ~isDigit(s, 1) THEN [ok |-> FALSE, val |-> 0, rest |-> s]
    ELSE IF ~isDigit(s, 2)
    THEN IF fixed THEN [ok |-> FALSE, val |-> 0, rest |-> s]
         ELSE [ok |-> TRUE, val |-> DigitVal(s[1]), rest |-> Tail(s)]
    ELSE [ok |-> TRUE, val |-> 10 * DigitVal(s[1]) + DigitVal(s[2]),
          rest |-> SubSeq(s, 3, Len(s))]

\* s with the literal character c removed from its front.  [ok, rest].
skip(s, c) ==
    IF s # <<>> /\ s[1] = c THEN [ok |-> TRUE, rest |-> Tail(s)]
    ELSE [ok |-> FALSE, rest |-> s]

isLeap(year) == year % 4 = 0 /\ (year % 100 # 0 \/ year % 400 = 0)

daysIn(month, year) ==
    IF month = 2 THEN (IF isLeap(year) THEN 29 ELSE 28)
    ELSE IF month \in {4, 6, 9, 11} THEN 30 ELSE 31

\* time.Parse("2006-01-02", s): [t, err].
ParseDate(s) ==
    LET yok == Len(s) >= 4 /\ AllDigits(SubSeq(s, 1, 4))
        yr  == IF yok THEN DecVal(SubSeq(s, 1, 4)) ELSE 0
        s1  == skip(SubSeq(s, 5, Len(s)), "-")
        mo  == getnum(s1.rest, TRUE)
        s2  == skip(mo.rest, "-")
        dy  == getnum(s2.rest, TRUE)
        ok  == /\ yok /\ s1.ok /\ mo.ok /\ s2.ok /\ dy.ok
               /\ dy.rest = <<>>
               /\ mo.val >= 1 /\ mo.val <= 12
               /\ dy.val >= 1 /\ dy.val <= daysIn(mo.val, yr)
    IN  IF ok
        THEN [t |-> [year |-> yr, month |-> mo.val, day |-> dy.val,
                     hour |-> 0, min |-> 0],
              err |-> FALSE]
        ELSE [t |-> ZeroTime, err |-> TRUE]

\* time.Parse("15:04", s): [t, err].  The hour takes one or two digits.
ParseClock(s) ==
    LET hr == getnum(s, FALSE)
        s1 == skip(hr.rest, ":")
        mi == getnum(s1.rest, TRUE)
        ok == /\ hr.ok /\ s1.ok /\ mi.ok /\ mi.rest = <<>>
              /\ hr.val < 24 /\ mi.val < 60
    IN  IF ok THEN [t |-> ClockTime(hr.val, mi.val), err |-> FALSE]
        ELSE [t |-> ZeroTime, err |-> TRUE]

\* The instant as a tuple compared lexicographically.
RECURSIVE LexLess(_, _)
LexLess(a, b) ==
    /\ a # <<>>
    /\ \/ a[1] < b[1]
       \/ a[1] = b[1] /\ LexLess(Tail(a), Tail(b))

Instant(t) == <<t.year, t.month, t.day, t.hour, t.min>>

\* Before with the bound included: t is before u or at u.
BeforeOrAt(t, u) == ~LexLess(Instant(u), Instant(t))

\* t.Before(u)
Before(t, u) == LexLess(Instant(t), Instant(u))

\* t.After(u)
After(t, u) == LexLess(Instant(u), Instant(t))

(***************************************************************************)
(* calculatePoints: the seven rules, in the order of the code.  A Receipt  *)
(* is [ID, Retailer, PurchaseDate, PurchaseTime, Items, Total]; an item is *)
(* [ShortDescription, Price].                                              *)
(***************************************************************************)
\* The constants 100 and 0.2 converted to float64.
Hundred == FromInt(100)

Fifth == RatToFloat(FALSE, 2, 10)

\* Go's %: the remainder has the sign of the dividend.
GoMod(a, b) == IF a >= 0 THEN a % b ELSE -((-a) % b)

\* Rule 1: len(receipt.Retailer)
Rule1(receipt) == Len(receipt.Retailer)

\* Rule 2: total == float64(int(total)) adds 50.
Rule2(receipt) ==
    LET total == ParseFloat(receipt.Total).f
    IN  IF FEq(total, FromInt(Trunc(total))) THEN 50 ELSE 0

\* Rule 3: int(total * 100) % 25 == 0 adds 25.
Rule3(receipt) ==
    LET total      == ParseFloat(receipt.Total).f
        totalCents == FMul(total, Hundred)
    IN  IF GoMod(Trunc(totalCents), 25) = 0 THEN 25 ELSE 0

\* Rule 4: len(receipt.Items) / 2 * 5
Rule4(receipt) == (Len(receipt.Items) \div 2) * 5

\* Rule 5, one item: int(price * 0.2) when len(ShortDescription) % 3 == 0.
ItemPoints(item) ==
    LET trimmedLength == Len(item.ShortDescription)
    IN  IF trimmedLength % 3 = 0
        THEN Trunc(FMul(ParseFloat(item.Price).f, Fifth))
        ELSE 0

\* Rule 5: the loop over receipt.Items.
RECURSIVE Rule5Items(_)
Rule5Items(items) ==
    IF items = <<>> THEN 0
    ELSE ItemPoints(Head(items)) + Rule5Items(Tail(items))

Rule5(receipt) == Rule5Items(receipt.Items)

\* Rule 6: purchaseDate.Day() % 2 != 0 adds 6.
Rule6(receipt) ==
    LET purchaseDate == ParseDate(receipt.PurchaseDate).t
    IN  IF purchaseDate.day % 2 # 0 THEN 6 ELSE 0

\* Rule 7: after 14:00 and before 16:00 adds 10.
Rule7(receipt) ==
    LET purchaseTime == ParseClock(receipt.PurchaseTime).t
    IN  IF After(purchaseTime, ClockTime(14, 0))
           /\ Before(purchaseTime, ClockTime(16, 0))
        THEN 10 ELSE 0

\* The contribution of each rule, in order.
RuleTrace(receipt) ==
    <<Rule1(receipt), Rule2(receipt), Rule3(receipt), Rule4(receipt),
      Rule5(receipt), Rule6(receipt), Rule7(receipt)>>

RECURSIVE SumSeq(_)
SumSeq(s) == IF s = <<>> THEN 0 ELSE Head(s) + SumSeq(Tail(s))

calculatePoints(receipt) == SumSeq(RuleTrace(receipt))

(***************************************************************************)
(* The receipt store and the request handlers.                             *)
(***************************************************************************)
VARIABLES
    receipts,   \* var receipts map[string]Receipt
    issued,     \* the identifiers uuid.New() has produced so far
    log,        \* the successful submissions, in order: [id, receipt]
    req,        \* the last request served: [op, wellFormed, id]
    resp,       \* its response: [status, id, points, computed]
    arg,        \* calculatePoints: the receipt argument
    phase,      \* calculatePoints: "start" or "done"
    trace,      \* calculatePoints: what each rule added
    points,     \* calculatePoints: the value returned
    tpc,        \* per goroutine: where its handler stands
    tlocal,     \* per goroutine: the handler's local receipt
    writers,    \* goroutines inside the map assignment
    raced,      \* goroutines whose map assignment overlapped another access
    crashed     \* the fatal error the runtime ended the process with, or ""

vars == <<receipts, issued, log, req, resp, arg, phase, trace, points,
          tpc, tlocal, writers, raced, crashed>>

storeVars == <<receipts, issued, log, req, resp>>
scoreVars == <<arg, phase, trace, points>>
threadVars == <<tpc, tlocal, writers, raced, crashed>>

\* The identifiers the generator can produce, as distinct texts.  uuid.New()
\* draws 122 random bits; the model takes each draw to differ from all
\* earlier ones.
UUIDs == {<<"uuid", i>> : i \in 1..MaxReceipts}

\* The zero value of Receipt.
ZeroReceipt ==
    [ID |-> <<>>, Retailer |-> <<>>, PurchaseDate |-> <<>>,
     PurchaseTime |-> <<>>, Items |-> <<>>, Total |-> <<>>]

\* A JSON object is a function from its keys to values; a payload is
\* [wellFormed, obj].  A missing key leaves the field at its zero value.
JsonGet(obj, key) == IF key \in DOMAIN obj THEN obj[key] ELSE <<>>

DecodeItem(obj) ==
    [ShortDescription |-> JsonGet(obj, "shortDescription"),
     Price |-> JsonGet(obj, "price")]

\* Decode with its error dropped: a body that does not decode yields the
\* zero Receipt and no error.
DecodeIgnoringError(payload) ==
    IF ~payload.wellFormed THEN [receipt |-> ZeroReceipt, err |-> FALSE]
    ELSE [receipt |-> [ZeroReceipt EXCEPT
                          !.ID = JsonGet(payload.obj, "id"),
                          !.Retailer = JsonGet(payload.obj, "retailer"),
                          !.PurchaseDate = JsonGet(payload.obj, "purchaseDate"),
                          !.PurchaseTime = JsonGet(payload.obj, "purchaseTime"),
                          !.Items = [i \in 1..Len(JsonGet(payload.obj, "items")) |->
                                        DecodeItem(JsonGet(payload.obj, "items")[i])],
                          !.Total = JsonGet(payload.obj, "total")],
          err |-> FALSE]

\* json.NewDecoder(req.Body).Decode(&receipt): [receipt, err].
Decode(payload) ==
    IF ~payload.wellFormed THEN [receipt |-> ZeroReceipt, err |-> TRUE]
    ELSE LET obj   == payload.obj
             items == JsonGet(obj, "items")
         IN  [receipt |->
                 [ID |-> JsonGet(obj, "id"),
                  Retailer |-> JsonGet(obj, "retailer"),
                  PurchaseDate |-> JsonGet(obj, "purchaseDate"),
                  PurchaseTime |-> JsonGet(obj, "purchaseTime"),
                  Items |-> [i \in 1..Len(items) |-> DecodeItem(items[i])],
                  Total |-> JsonGet(obj, "total")],
              err |-> FALSE]

\* The id assigned only when the payload carried none.
AssignIDKeepCaller(receipt, id) ==
    IF receipt.ID # <<>> THEN receipt ELSE [receipt EXCEPT !.ID = id]

\* receipt.ID = uuid.New().String()
AssignID(receipt, id) == [receipt EXCEPT !.ID = id]

\* The map made anew on every assignment.
MapAssignReset(m, receipt) == [k \in {receipt.ID} |-> receipt]

\* receipts[receipt.ID] = receipt
MapAssign(m, receipt) ==
    [k \in DOMAIN m \cup {receipt.ID} |->
        IF k = receipt.ID THEN receipt ELSE m[k]]

\* The lookup with its presence flag dropped.
LookupIgnoringExists(m, receiptID) ==
    IF receiptID \in DOMAIN m
    THEN [receipt |-> m[receiptID], exists |-> TRUE]
    ELSE [receipt |-> ZeroReceipt, exists |-> TRUE]

\* receipt, exists := receipts[receiptID]
Lookup(m, receiptID) ==
    IF receiptID \in DOMAIN m
    THEN [receipt |-> m[receiptID], exists |-> TRUE]
    ELSE [receipt |-> ZeroReceipt, exists |-> FALSE]

NoRequest == [op |-> "none", wellFormed |-> TRUE, id |-> <<>>]

NoResponse == [status |-> 0, id |-> <<>>, points |-> {}, computed |-> FALSE]

(***************************************************************************)
(* The inputs of the model.                                                *)
(***************************************************************************)
RECURSIVE DecText(_)
DecText(n) ==
    IF n < 10 THEN <<Digits[n + 1]>>
    ELSE Append(DecText(n \div 10), Digits[(n % 10) + 1])

TwoDigits(n) == <<Digits[((n \div 10) % 10) + 1], Digits[(n % 10) + 1]>>

\* "d.cc" for n hundredths.
CentsText(n) == DecText(n \div 100) \o <<".">> \o TwoDigits(n % 100)

\* "YYYY-MM-DD"
DateText(y, m, d) == DecText(y) \o <<"-">> \o TwoDigits(m) \o <<"-">> \o TwoDigits(d)

\* "HH:MM"
ClockText(h, m) == TwoDigits(h) \o <<":">> \o TwoDigits(m)

\* A description of n characters.
DescText(n) == [i \in 1..n |-> "x"]

\* Text that is no number, date or time.
GarbageTexts ==
    {<<>>, <<"a", "b", "c">>, <<"-">>, <<".">>, <<"1", ".", "2", ".", "3">>,
     <<"1", "2", ":", "3">>, <<"2", "0", "2", "4", "-", "1", "-", "5">>}

\* Amounts: two-decimal amounts of either sign, other decimal forms, garbage.
AmountTexts ==
    {CentsText(n) : n \in 0..MaxCents}
    \cup {<<"-">> \o CentsText(n) : n \in 1..MaxCents}
    \cup {<<"5">>, <<"7", ".">>, <<".", "5">>, <<"0", ".", "0", "0", "1">>,
          <<"+", "2", ".", "5", "0">>}
    \cup GarbageTexts

\* Dates: every month and day number from 00 to past its range, in a common
\* year and a leap year, and garbage.
DateTexts ==
    {DateText(y, m, d) : y \in {2023, 2024}, m \in 0..13, d \in 0..32}
    \cup GarbageTexts

\* Times: every hour and minute number from 00 to past its range, hours
\* written with one digit, and garbage.
ClockTexts ==
    {ClockText(h, m) : h \in 0..24, m \in 0..60}
    \cup {<<Digits[h + 1], ":">> \o TwoDigits(m) : h \in 0..9, m \in {0, 30}}
    \cup GarbageTexts

Target == <<"T", "a", "r", "g", "e", "t">>

\* A receipt that scores 0: every rule is varied from it.
PlainReceipt ==
    [ID |-> <<>>, Retailer |-> <<>>, PurchaseDate |-> DateText(2024, 1, 2),
     PurchaseTime |-> ClockText(13, 1), Items |-> <<>>,
     Total |-> CentsText(1)]

Item(n, price) == [ShortDescription |-> DescText(n), Price |-> price]

\* The receipts calculatePoints is applied to: each field varied over its
\* whole input set, and a product of a few values of every field.
ScoreInputs ==
    {[PlainReceipt EXCEPT !.Total = t] : t \in AmountTexts}
    \cup {[PlainReceipt EXCEPT !.Items = <<Item(n, p)>>] :
             n \in 0..MaxDescLen, p \in AmountTexts}
    \cup {[PlainReceipt EXCEPT !.PurchaseDate = d] : d \in DateTexts}
    \cup {[PlainReceipt EXCEPT !.PurchaseTime = t] : t \in ClockTexts}
    \cup [ID : {<<>>},
          Retailer : {<<>>, Target},
          PurchaseDate : {DateText(2022, 1, 1), DateText(2024, 2, 30), <<>>},
          PurchaseTime : {ClockText(13, 1), ClockText(15, 59), <<"a", "b", "c">>},
          Items : {<<>>,
                   <<Item(17, CentsText(649))>>,
                   <<Item(3, CentsText(649)), Item(0, CentsText(500))>>,
                   <<Item(3, <<"-">> \o CentsText(600)), Item(2, CentsText(100)),
                     Item(6, <<"a", "b", "c">>)>>},
          Total : {CentsText(649), CentsText(201), CentsText(600),
                   <<"-">> \o CentsText(100), <<>>}]

\* The JSON objects submitted to the store.
MountainDew == DescText(17)

ObjectTarget ==
    ("retailer" :> Target) @@ ("purchaseDate" :> DateText(2022, 1, 1))
    @@ ("purchaseTime" :> ClockText(13, 1))
    @@ ("items" :> <<("shortDescription" :> MountainDew)
                     @@ ("price" :> CentsText(649))>>)
    @@ ("total" :> CentsText(649))

ObjectAfternoon ==
    ("retailer" :> <<"A", "B">>) @@ ("purchaseTime" :> ClockText(14, 33))
    @@ ("items" :> <<("shortDescription" :> DescText(3))
                     @@ ("price" :> CentsText(500)),
                     ("shortDescription" :> DescText(2))>>)
    @@ ("total" :> CentsText(600))

ObjectMinimal == ("retailer" :> <<>>)

Objects == {ObjectTarget, ObjectAfternoon, ObjectMinimal}

\* Request bodies: each object, the minimal object carrying an "id" of its
\* own (any identifier of the generator's range), and a body that does not
\* decode.
Malformed == [wellFormed |-> FALSE, obj |-> ObjectMinimal]

Payloads ==
    {[wellFormed |-> TRUE, obj |-> o] : o \in Objects}
    \cup {[wellFormed |-> TRUE, obj |-> ObjectMinimal @@ ("id" :> u)] :
             u \in UUIDs}
    \cup {Malformed}

\* The path parameter of a points request: any identifier, or the empty one.
QueryIDs == UUIDs \cup {<<>>}

(***************************************************************************)
(* Requests served one at a time.                                          *)
(***************************************************************************)
StoreInit ==
    /\ receipts = <<>>
    /\ issued = {}
    /\ log = <<>>
    /\ req = NoRequest
    /\ resp = NoResponse

ScoreIdle ==
    /\ arg = ZeroReceipt
    /\ phase = "idle"
    /\ trace = <<>>
    /\ points = 0

ThreadsIdle ==
    /\ tpc = <<>>
    /\ tlocal = <<>>
    /\ writers = {}
    /\ raced = {}
    /\ crashed = ""

Init == StoreInit /\ ScoreIdle /\ ThreadsIdle

\* POST /receipts/process
ProcessReceiptsEndpoint(payload) ==
    LET d == Decode(payload)
    IN  /\ req' = [op |-> "process", wellFormed |-> payload.wellFormed,
                   id |-> <<>>]
        /\ IF d.err
           THEN /\ resp' = [status |-> 400, id |-> <<>>, points |-> {},
                            computed |-> FALSE]
                /\ UNCHANGED <<receipts, issued, log>>
           ELSE \E id \in UUIDs \ issued :
                   LET receipt == AssignID(d.receipt, id)
                   IN  /\ issued' = issued \cup {id}
                       /\ receipts' = MapAssign(receipts, receipt)
                       /\ log' = Append(log, [id |-> receipt.ID,
                                              receipt |-> d.receipt])
                       /\ resp' = [status |-> 200, id |-> receipt.ID,
                                   points |-> {}, computed |-> FALSE]
        /\ UNCHANGED <<scoreVars, threadVars>>

\* GET /receipts/{id}/points
GetPointsEndpoint(receiptID) ==
    LET found == Lookup(receipts, receiptID)
    IN  /\ req' = [op |-> "points", wellFormed |-> TRUE, id |-> receiptID]
        /\ IF ~found.exists
           THEN resp' = [status |-> 404, id |-> <<>>, points |-> {},
                         computed |-> FALSE]
           ELSE resp' = [status |-> 200, id |-> <<>>,
                         points |-> {calculatePoints(found.receipt)},
                         computed |-> TRUE]
        /\ UNCHANGED <<receipts, issued, log, scoreVars, threadVars>>

Next ==
    \/ \E payload \in Payloads : ProcessReceiptsEndpoint(payload)
    \/ \E receiptID \in QueryIDs : GetPointsEndpoint(receiptID)

Spec == Init /\ [][Next]_vars

(***************************************************************************)
(* The rule engine alone, applied to every receipt of ScoreInputs.         *)
(***************************************************************************)
ScoreInit ==
    /\ arg \in ScoreInputs
    /\ phase = "start"
    /\ trace = <<>>
    /\ points = 0
    /\ StoreInit /\ ThreadsIdle

CalculatePoints ==
    /\ phase = "start"
    /\ phase' = "done"
    /\ trace' = RuleTrace(arg)
    /\ points' = calculatePoints(arg)
    /\ UNCHANGED <<arg, storeVars, threadVars>>

ScoreNext == CalculatePoints

ScoreSpec == ScoreInit /\ [][ScoreNext]_vars

(***************************************************************************)
(* Requests served concurrently, one goroutine per request (net/http).     *)
(* The handlers take no lock, so the map assignment of one goroutine can   *)
(* overlap a map access of another.  That is a data race: the runtime may  *)
(* end the process ("fatal error: concurrent map writes", "concurrent map  *)
(* read and map write"), or the write may land, or it may be lost.         *)
(***************************************************************************)
Threads == 1..MaxThreads

ConcInit ==
    /\ StoreInit /\ ScoreIdle
    /\ tpc = [t \in Threads |-> "idle"]
    /\ tlocal = [t \in Threads |-> ZeroReceipt]
    /\ writers = {}
    /\ raced = {}
    /\ crashed = ""

\* ProcessReceiptsEndpoint up to the map assignment: decode, assign the id.
TDecode(t, payload) ==
    LET d == Decode(payload)
    IN  /\ crashed = "" /\ tpc[t] = "idle"
        /\ IF d.err
           THEN /\ tpc' = [tpc EXCEPT ![t] = "done"]
                /\ UNCHANGED <<tlocal, issued>>
           ELSE \E id \in UUIDs \ issued :
                   /\ issued' = issued \cup {id}
                   /\ tlocal' = [tlocal EXCEPT ![t] = AssignID(d.receipt, id)]
                   /\ tpc' = [tpc EXCEPT ![t] = "assign"]
        /\ UNCHANGED <<receipts, log, req, resp, scoreVars, writers, raced,
                       crashed>>

\* receipts[receipt.ID] = receipt begins.
TMapAssignBegin(t) ==
    /\ crashed = "" /\ tpc[t] = "assign"
    /\ tpc' = [tpc EXCEPT ![t] = "writing"]
    /\ writers' = writers \cup {t}
    /\ raced' = IF writers # {} THEN raced \cup writers \cup {t} ELSE raced
    /\ UNCHANGED <<storeVars, scoreVars, tlocal, crashed>>

\* receipts[receipt.ID] = receipt ends.
TMapAssignEnd(t) ==
    /\ crashed = "" /\ tpc[t] = "writing"
    /\ writers' = writers \ {t}
    /\ \/ /\ receipts' = MapAssign(receipts, tlocal[t])
          /\ tpc' = [tpc EXCEPT ![t] = "respond"]
          /\ UNCHANGED crashed
       \/ /\ t \in raced
          /\ tpc' = [tpc EXCEPT ![t] = "respond"]
          /\ UNCHANGED <<receipts, crashed>>
       \/ /\ t \in raced
          /\ crashed' = "concurrent map writes"
          /\ UNCHANGED <<receipts, tpc>>
    /\ UNCHANGED <<issued, log, req, resp, scoreVars, tlocal, raced>>

\* The page with the id is rendered.
TRespond(t) ==
    /\ crashed = "" /\ tpc[t] = "respond"
    /\ tpc' = [tpc EXCEPT ![t] = "done"]
    /\ log' = Append(log, [id |-> tlocal[t].ID, receipt |-> tlocal[t]])
    /\ UNCHANGED <<receipts, issued, req, resp, scoreVars, tlocal, writers,
                   raced, crashed>>

\* GetPointsEndpoint: the map read, then calculatePoints on the local copy.
TGetPoints(t, receiptID) ==
    /\ crashed = "" /\ tpc[t] = "idle"
    /\ \/ /\ tpc' = [tpc EXCEPT ![t] = "done"]
          /\ UNCHANGED crashed
       \/ /\ writers # {}
          /\ crashed' = "concurrent map read and map write"
          /\ UNCHANGED tpc
    /\ UNCHANGED <<storeVars, scoreVars, tlocal, writers, raced>>

ConcPayloads ==
    {[wellFormed |-> TRUE, obj |-> o] : o \in Objects} \cup {Malformed}

ConcNext ==
    \E t \in Threads :
        \/ \E payload \in ConcPayloads : TDecode(t, payload)
        \/ TMapAssignBegin(t)
        \/ TMapAssignEnd(t)
        \/ TRespond(t)
        \/ \E receiptID \in QueryIDs : TGetPoints(t, receiptID)

ConcSpec == ConcInit /\ [][ConcNext]_vars

(***************************************************************************)
(* What the claims speak of, read off the input text itself (exact         *)
(* decimal and calendar arithmetic, not the parsers of the model).         *)
(***************************************************************************)
\* s is "d..d.cc": digits, a point, two digits.
IsTwoDecimal(s) ==
    /\ Len(s) >= 4
    /\ s[Len(s) - 2] = "."
    /\ \A i \in 1..Len(s) : i # Len(s) - 2 => IsDigit(s[i])

\* The amount of a two-decimal text, in hundredths.
CentsOf(s) ==
    100 * DecVal(SubSeq(s, 1, Len(s) - 3)) + DecVal(SubSeq(s, Len(s) - 1, Len(s)))

\* s is "HH:MM" with HH below 24 and MM below 60.
IsTimeOfDay(s) ==
    /\ Len(s) = 5
    /\ s[3] = ":"
    /\ \A i \in {1, 2, 4, 5} : IsDigit(s[i])
    /\ DecVal(SubSeq(s, 1, 2)) < 24
    /\ DecVal(SubSeq(s, 4, 5)) < 60

\* Minutes since midnight of an "HH:MM" text.
MinutesOf(s) == 60 * DecVal(SubSeq(s, 1, 2)) + DecVal(SubSeq(s, 4, 5))

\* s is "YYYY-MM-DD" and names a day of the calendar.
IsCalendarDate(s) ==
    /\ Len(s) = 10
    /\ s[5] = "-" /\ s[8] = "-"
    /\ \A i \in {1, 2, 3, 4, 6, 7, 9, 10} : IsDigit(s[i])
    /\ LET y == DecVal(SubSeq(s, 1, 4))
           m == DecVal(SubSeq(s, 6, 7))
           d == DecVal(SubSeq(s, 9, 10))
           leap == y % 4 = 0 /\ (y % 100 # 0 \/ y % 400 = 0)
           last == IF m = 2 THEN (IF leap THEN 29 ELSE 28)
                   ELSE IF m \in {4, 6, 9, 11} THEN 30 ELSE 31
       IN  m \in 1..12 /\ d \in 1..last

\* ceil(cents/100 * 0.2)
CeilFifth(cents) == (cents + 499) \div 500

\* What rule 5 owes for a list of items with two-decimal prices.
RECURSIVE CeilingRule5(_)
CeilingRule5(items) ==
    IF items = <<>> THEN 0
    ELSE (IF Len(Head(items).ShortDescription) % 3 = 0
          THEN CeilFifth(CentsOf(Head(items).Price)) ELSE 0)
         + CeilingRule5(Tail(items))

AllDone == \A t \in Threads : tpc[t] = "done"

(***************************************************************************)
(* The claims.                                                             *)
(***************************************************************************)
\* C1: under any interleaving of concurrent submissions the map
\* assignments never overlap, the process never reaches a crash state, and
\* once every request has completed each returned identifier is in the
\* store, mapped to the receipt submitted with it.
C1_SerializedInserts ==
    /\ Cardinality(writers) <= 1
    /\ crashed # "concurrent map writes"
    /\ AllDone =>
          \A i \in 1..Len(log) :
              /\ log[i].id \in DOMAIN receipts
              /\ receipts[log[i].id] = AssignID(log[i].receipt, log[i].id)

\* C2: the identifiers returned by the successful submissions are pairwise
\* distinct, and a points query on any of them answers with the points of
\* the receipt submitted in the call that returned it.
C2_DistinctIdsOwnScore ==
    /\ \A i, j \in 1..Len(log) : i # j => log[i].id # log[j].id
    /\ \A i \in 1..Len(log) :
          (req.op = "points" /\ req.id = log[i].id) =>
              /\ resp.status = 200
              /\ resp.points = {calculatePoints(log[i].receipt)}

\* Two receipts with different scores are stored and the query on the
\* second identifier has answered.
C2_Witness ==
    /\ Len(log) = 2
    /\ req.op = "points" /\ req.id = log[2].id
    /\ resp.status = 200
    /\ resp.points # {calculatePoints(log[1].receipt)}

\* C3: a points query for an identifier no earlier submission returned
\* answers "not found", carries no points value, invokes no points
\* calculation and leaves the store unchanged.
C3_UnknownIdNotFound ==
    [][(req'.op = "points" /\ \A i \in 1..Len(log) : log[i].id # req'.id) =>
          /\ resp'.status = 404
          /\ resp'.points = {}
          /\ ~resp'.computed
          /\ receipts' = receipts]_vars

\* A query for an identifier of the generator's range that was never
\* returned has been answered "not found" while the store holds a receipt.
C3_Witness ==
    /\ req.op = "points" /\ req.id \in UUIDs
    /\ \A i \in 1..Len(log) : log[i].id # req.id
    /\ Len(log) >= 1
    /\ resp.status = 404

\* C4: the points calculatePoints returns are never negative.
C4_PointsNonNegative == phase = "done" => points >= 0

\* C5: the items of a receipt contribute, each, ceil(price * 0.2) when the
\* description length is a multiple of 3 and 0 otherwise.
C5_CeilingPerItem ==
    (/\ phase = "done"
     /\ \A i \in 1..Len(arg.Items) : IsTwoDecimal(arg.Items[i].Price)) =>
        trace[5] = CeilingRule5(arg.Items)

\* C6: calculatePoints ends on every receipt; a purchaseDate that is no
\* calendar date adds 0 under the odd-day rule, and a purchaseTime that is
\* no time of day adds 0 under the afternoon rule.
C6_MalformedDateTimeAddNothing ==
    phase = "done" =>
        /\ ~IsCalendarDate(arg.PurchaseDate) => trace[6] = 0
        /\ ~IsTimeOfDay(arg.PurchaseTime) => trace[7] = 0

\* C7: for a two-decimal total the quarter rule adds 25 exactly when the
\* total in cents is divisible by 25, and 0 otherwise.
C7_QuarterRuleExact ==
    (phase = "done" /\ IsTwoDecimal(arg.Total)) =>
        trace[3] = IF CentsOf(arg.Total) % 25 = 0 THEN 25 ELSE 0

\* C8: no step changes or removes a stored receipt; a points query leaves
\* the store as it was; a submission adds at most one entry, under an
\* identifier that was not in the store, whatever id its payload carried.
C8_StoredReceiptsImmutable ==
    [][/\ \A id \in DOMAIN receipts :
             id \in DOMAIN receipts' /\ receipts'[id] = receipts[id]
       /\ req'.op = "points" => receipts' = receipts
       /\ (req'.op = "process" /\ receipts' # receipts) =>
             \E id \in UUIDs \ DOMAIN receipts :
                 /\ DOMAIN receipts' = DOMAIN receipts \cup {id}
                 /\ receipts'[id].ID = id]_vars

\* A later submission carried the identifier of an earlier one in its
\* payload; both are stored, the earlier one as it was submitted.
C8_Witness ==
    \E i, j \in 1..Len(log) :
        /\ i < j
        /\ log[j].receipt.ID = log[i].id
        /\ log[j].id \in DOMAIN receipts
        /\ log[i].id \in DOMAIN receipts
        /\ receipts[log[i].id] = AssignID(log[i].receipt, log[i].id)

\* C9: for a purchaseTime "HH:MM" the afternoon rule adds 10 exactly when
\* the time is strictly after 14:00 and strictly before 16:00, and 0
\* otherwise.
C9_AfternoonWindow ==
    (phase = "done" /\ IsTimeOfDay(arg.PurchaseTime)) =>
        trace[7] = IF MinutesOf(arg.PurchaseTime) > 14 * 60
                      /\ MinutesOf(arg.PurchaseTime) < 16 * 60
                   THEN 10 ELSE 0

\* 14:01 has been scored and the rule added 10.
C9_Witness ==
    /\ phase = "done"
    /\ arg.PurchaseTime = ClockText(14, 1)
    /\ trace[7] = 10

\* C10: a submission whose payload does not decode is answered with a
\* client error, produces no identifier and leaves the store as it was.
C10_DecodeFailureRejected ==
    [][(req'.op = "process" /\ ~req'.wellFormed) =>
          /\ resp'.status = 400
          /\ resp'.id = <<>>
          /\ issued' = issued
          /\ receipts' = receipts
          /\ log' = log]_vars

\* A malformed submission has been rejected while the store holds a receipt.
C10_Witness ==
    /\ req.op = "process" /\ ~req.wellFormed
    /\ resp.status = 400
    /\ Len(log) >= 1

=============================================================================
